---- MODULE Spec2Model ----
(***************************************************************************)
(* Kaizen habit tracker: the Habit Record Engine (src/src/domain/habit.ts), *)
(* the Document Store (habitRepo, src/src/ui/sidebarView.ts:729-940) and    *)
(* the Orchestration Service (habitService, src/unnamed/part_002).          *)
(*                                                                         *)
(* A calendar day 'YYYY-MM-DD' is modelled by its day number (an integer), *)
(* so string order of valid identifiers is integer order and one calendar  *)
(* day apart is a difference of 1.                                         *)
(***************************************************************************)
EXTENDS Integers, Sequences, FiniteSets, TLC

\* ------------------------------------------------------------------ bounds
MaxDay == 5
MaxLen == 3
MaxHist == 4
MaxWindow == 3
MaxRawDay == 2
MaxRaw == 3
MaxStoreDay == 2
MaxLines == 2
MaxWatchDay == 3   \* the watch's clock runs over the days 1..MaxWatchDay
MaxCallbacks == 3  \* registered callbacks of the watch
MaxTimers == 2     \* interval timers the host holds at once
MaxRateDay == 40   \* completionRate: longest window and latest day

\* ----------------------------------------------------------- value domains
Days == 1..MaxDay
RefDays == 1..(MaxDay + 1)
Windows == 0..MaxWindow

NoCount == -1
Undef == "<undefined>"
Titles == {"Read"}
Triggers == {Undef, "after coffee"}
Schedules == {Undef, "daily"}
HabitPath == "Habits/Read.md"

Range(s) == {s[i] : i \in 1..Len(s)}

IsSortedAsc(s) == \A i \in 1..(Len(s) - 1) : s[i] <= s[i + 1]

NoDuplicates(s) == \A i, j \in 1..Len(s) : i # j => s[i] # s[j]

\* Array.prototype.sort() on valid day identifiers: ascending, duplicates kept.
RECURSIVE InsertSorted(_, _)
InsertSorted(x, s) ==
  IF s = <<>> THEN <<x>>
  ELSE IF x <= Head(s) THEN <<x>> \o s
  ELSE <<Head(s)>> \o InsertSorted(x, Tail(s))

RECURSIVE SortAsc(_)
SortAsc(s) ==
  IF s = <<>> THEN <<>> ELSE InsertSorted(Head(s), SortAsc(Tail(s)))

\* ------------------------------------------------------------------ engine
\* interface Habit
Habit(id, title, trigger, schedule, history, count) ==
  [id |-> id, title |-> title, trigger |-> trigger, schedule |-> schedule,
   history |-> history, count |-> count]

\* dayBefore: new Date(d); setDate(getDate() - n); toISOString().slice(0, 10)
\* (the process runs in a zone with a fixed offset from UTC)
dayBefore(d, n) == d - n

deriveCount(h) == IF h.count # NoCount THEN h.count ELSE Len(h.history)

markDoneNoCheck(habit, date) ==
  LET newHistory == SortAsc(Append(habit.history, date))
  IN [habit EXCEPT !.history = newHistory, !.count = Len(newHistory)]

markDone(habit, date) ==
  IF date \notin Range(habit.history)
  THEN LET newHistory == SortAsc(Append(habit.history, date))
       IN [habit EXCEPT !.history = newHistory, !.count = Len(newHistory)]
  ELSE habit

RECURSIVE StreakWalk(_, _, _)
StreakWalk(set, now, i) ==
  IF dayBefore(now, i) \in set THEN 1 + StreakWalk(set, now, i + 1) ELSE 0

currentStreakNoBreak(habit, now) ==
  Cardinality({d \in Range(habit.history) : d <= now})

currentStreak(habit, now) == StreakWalk(Range(habit.history), now, 0)

RECURSIVE LongestLoop(_, _, _, _)
LongestLoop(sorted, i, cur, max) ==
  IF i > Len(sorted) THEN max
  ELSE IF sorted[i] - sorted[i - 1] = 1
       THEN LongestLoop(sorted, i + 1, cur + 1,
                        IF cur + 1 > max THEN cur + 1 ELSE max)
       ELSE LongestLoop(sorted, i + 1, 1, max)

longestStreakNoEmptyCheck(habit) == LongestLoop(SortAsc(habit.history), 2, 1, 1)

longestStreak(habit) ==
  IF Len(habit.history) = 0 THEN 0
  ELSE LongestLoop(SortAsc(habit.history), 2, 1, 1)

isDoneToday(habit, now) == now \in Range(habit.history)

\* Math.round of a non-negative quotient num / den
MathRound(num, den) == (2 * num + den) \div (2 * den)

\* The pairs (count, pastDays), pastDays <= 200, for which the IEEE-754
\* double (count / pastDays) * 100 falls just below the exact percentage
\* x.5: (23 / 40) * 100 is 57.49999999999999. For every other pair up to 200
\* the double rounds as the exact quotient does.
DoubleBelowHalf ==
  {<<23, 40>>, <<46, 80>>, <<69, 120>>, <<92, 160>>,
   <<29, 200>>, <<57, 200>>, <<113, 200>>, <<115, 200>>}

\* Math.round((count / pastDays) * 100)
roundedPercent(count, pastDays) ==
  IF <<count, pastDays>> \in DoubleBelowHalf THEN (count * 100) \div pastDays
  ELSE MathRound(count * 100, pastDays)

completionRateTruncated(habit, pastDays, now) ==
  IF pastDays <= 0 THEN 0
  ELSE LET set == Range(habit.history)
           count == Cardinality({i \in 0..(pastDays - 1) : dayBefore(now, i) \in set})
       IN (count * 100) \div pastDays

completionRate(habit, pastDays, now) ==
  IF pastDays <= 0 THEN 0
  ELSE LET set == Range(habit.history)
           count == Cardinality({i \in 0..(pastDays - 1) : dayBefore(now, i) \in set})
       IN roundedPercent(count, pastDays)

\* ------------------------------------------------ store: normalizeHistory
\* A raw header history item as yaml.load delivers it: a Date (kind "date":
\* the UTC calendar day of its instant and its UTC time of day), or a string
\* (kind "str": its leading YYYY-MM-DD prefix and whatever follows it), or a
\* string that does not start with a calendar day (kind "bad").
RawItem(kind, day, rest) == [kind |-> kind, day |-> day, rest |-> rest]

BadId == 0

\* the .map callback: getUTCFullYear/getUTCMonth/getUTCDate of a Date, the
\* matched prefix of a string, the string itself (BadId) when nothing matches
normalizeItem(item) ==
  CASE item.kind = "date" -> item.day
    [] item.kind = "str" -> item.day
    [] OTHER -> BadId

\* the .filter callback: /^\d{4}-\d{2}-\d{2}$/
matchesDayGrammar(d) == d # BadId

MapItems(raw) == [i \in 1..Len(raw) |-> normalizeItem(raw[i])]

RECURSIVE FilterValid(_)
FilterValid(s) ==
  IF s = <<>> THEN <<>>
  ELSE IF matchesDayGrammar(Head(s)) THEN <<Head(s)>> \o FilterValid(Tail(s))
  ELSE FilterValid(Tail(s))

normalizeHistory(raw) == SortAsc(FilterValid(MapItems(raw)))

\* ------------------------------------------------------------------- state
VARIABLES
  habit,    \* engine: the record the caller currently holds
  last,     \* engine: the last engine call, its arguments and its result
  nraw,     \* store: the raw history list last handed to normalizeHistory
  nout,     \* store: the list normalizeHistory returned for it
  docs,     \* vault: the habit documents, by path
  daily,    \* vault: the daily notes Daily/<day>.md, by day
  dailyFolder, \* vault: whether the folder Daily exists
  settings, \* plugin: the settings as the settings tab last set them
  opts,     \* service: the ServiceOptions captured by createHabitService
  held,     \* views: the record each view holds in memory (this.habits)
  calls,    \* service: the increment call each view has in flight
  cache,    \* host: the metadata cache, the document as it was last indexed
  scan,     \* service: the listHabits call in flight
  lastCheckedDate, \* watch: DayChangeDetector.lastCheckedDate
  checkInterval,   \* watch: DayChangeDetector.checkInterval (NoTimer is null)
  callbacks,       \* watch: DayChangeDetector.callbacks
  timers,   \* host: the interval timers that are set and not cleared
  invoked,  \* watch: the callback invocations of the last check
  clock,    \* host: the instant now, in ticks since the epoch
  zone      \* host: the offset of the local time zone from UTC, in ticks

engineVars == <<habit, last>>
normVars == <<nraw, nout>>
vaultVars == <<docs, daily, dailyFolder>>
storeVars == <<docs, daily, dailyFolder, settings, opts, held, calls>>
scanVars == <<cache, scan>>
watchVars == <<lastCheckedDate, checkInterval, callbacks, timers, invoked>>
clockVars == <<clock, zone>>
vars == <<habit, last, nraw, nout, docs, daily, dailyFolder, settings, opts, held, calls,
          cache, scan, lastCheckedDate, checkInterval, callbacks, timers, invoked,
          clock, zone>>

\* ------------------------------------------------------- engine: the calls
\* Histories a record read from a document can carry: sorted ascending by
\* normalizeHistory, duplicates kept.
SortedHistories ==
  {s \in UNION {[1..n -> Days] : n \in 0..MaxLen} : IsSortedAsc(s)}

InitHabits ==
  {Habit(HabitPath, "Read", ts[1], ts[2], hist, c) :
     ts \in {<<Undef, Undef>>, <<"after coffee", "daily">>},
     hist \in SortedHistories,
     c \in {NoCount, 2}}

Call(op, day, n, out) == [op |-> op, day |-> day, n |-> n, out |-> out]

InitEngine ==
  /\ habit \in InitHabits
  /\ last = Call("none", 0, 0, 0)

CallMarkDone(date) ==
  /\ Len(habit.history) < MaxHist
  /\ habit' = markDone(habit, date)
  /\ last' = Call("markDone", date, 0, 0)

CallCurrentStreak(now) ==
  /\ last' = Call("currentStreak", now, 0, currentStreak(habit, now))
  /\ UNCHANGED habit

CallLongestStreak ==
  /\ last' = Call("longestStreak", 0, 0, longestStreak(habit))
  /\ UNCHANGED habit

CallIsDoneToday(now) ==
  /\ last' = Call("isDoneToday", now, 0, IF isDoneToday(habit, now) THEN 1 ELSE 0)
  /\ UNCHANGED habit

CallCompletionRate(pastDays, now) ==
  /\ last' = Call("completionRate", now, pastDays, completionRate(habit, pastDays, now))
  /\ UNCHANGED habit

CallDeriveCount ==
  /\ last' = Call("deriveCount", 0, 0, deriveCount(habit))
  /\ UNCHANGED habit

NextEngine ==
  \/ \E date \in Days : CallMarkDone(date) /\ UNCHANGED <<normVars, storeVars, scanVars, watchVars, clockVars>>
  \/ \E now \in RefDays : CallCurrentStreak(now) /\ UNCHANGED <<normVars, storeVars, scanVars, watchVars, clockVars>>
  \/ CallLongestStreak /\ UNCHANGED <<normVars, storeVars, scanVars, watchVars, clockVars>>
  \/ \E now \in RefDays : CallIsDoneToday(now) /\ UNCHANGED <<normVars, storeVars, scanVars, watchVars, clockVars>>
  \/ \E pastDays \in Windows, now \in RefDays :
       CallCompletionRate(pastDays, now) /\ UNCHANGED <<normVars, storeVars, scanVars, watchVars, clockVars>>
  \/ CallDeriveCount /\ UNCHANGED <<normVars, storeVars, scanVars, watchVars, clockVars>>

\* --------------------------------------------- engine: completionRate alone
\* histories 1, 2, .., k, with or without a duplicate of the first day
RateHistories ==
  {[i \in 1..k |-> i] : k \in 0..MaxRateDay}
    \cup {<<1>> \o [i \in 1..k |-> i] : k \in 1..MaxRateDay}

RateWindows == (-1)..MaxRateDay
RateRefDays == {MaxRateDay - 1, MaxRateDay}

InitRate ==
  /\ habit \in {Habit(HabitPath, "Read", Undef, Undef, h, NoCount) : h \in RateHistories}
  /\ last = Call("none", 0, 0, 0)

NextRate ==
  \E pastDays \in RateWindows, now \in RateRefDays :
    CallCompletionRate(pastDays, now) /\ UNCHANGED <<normVars, storeVars, scanVars, watchVars, clockVars>>

\* ------------------------------------------- store: normalizing raw lists
RawDays == 1..MaxRawDay

RawItems ==
  {RawItem("date", d, t) : d \in RawDays, t \in {"00:00Z", "08:00Z"}}
    \cup {RawItem("str", d, r) : d \in RawDays, r \in {"", "T08:00"}}
    \cup {RawItem("bad", 0, "tomorrow")}

RawLists == UNION {[1..n -> RawItems] : n \in 0..MaxRaw}

InitNormalize ==
  /\ nraw = <<>>
  /\ nout = <<>>

\* findAllHabits / getHabitById: history: normalizeHistory(parsed.history)
NormalizeParsedHistory(raw) ==
  /\ nraw' = raw
  /\ nout' = normalizeHistory(raw)

NextNormalize ==
  \E raw \in RawLists : NormalizeParsedHistory(raw) /\ UNCHANGED <<engineVars, storeVars, scanVars, watchVars, clockVars>>

\* ------------------------------------------------------------------ vault
Procs == {"sidebar", "fullPage", "command"}
HabitIds == {HabitPath}
OtherPath == "Habits/Run.md"
\* the markdown files the vault can hold, in the order the host lists them
FileOrder == <<HabitPath, OtherPath>>
VaultPaths == Range(FileOrder)
StoreDays == 1..MaxStoreDay

\* values of a flag field in a parsed header
FlagTrue == "true"
FlagStrTrue == "'true'"
FlagFalse == "false"

\* the header keys the model tracks; tags stands for any field of another tool
HeaderKeys == {"title", "trigger", "schedule", "history", "count", "habit", "isHabit", "tags"}

Header(title, trigger, schedule, history, count, habitFlag, isHabitFlag, tags) ==
  [title |-> title, trigger |-> trigger, schedule |-> schedule,
   history |-> history, count |-> count, habit |-> habitFlag,
   isHabit |-> isHabitFlag, tags |-> tags]

\* the object {} : every key absent (an absent history reads as [])
EmptyHeader == Header(Undef, Undef, Undef, <<>>, NoCount, Undef, Undef, Undef)

\* A document: fm is "ok" when the text starts with a header block that
\* yaml.load parses, "bad" when the block does not parse, "none" when the
\* text has no header block; body is the text after the block.
Doc(exists, fm, header, body) ==
  [exists |-> exists, fm |-> fm, header |-> header, body |-> body]

NoDoc == Doc(FALSE, "none", EmptyHeader, "")

DailyDoc(exists, lines) == [exists |-> exists, lines |-> lines]

NoDaily == DailyDoc(FALSE, <<>>)

\* yaml.dump then yaml.load of a history of day identifiers: quoted strings
DumpHistory(history) == [i \in 1..Len(history) |-> RawItem("str", history[i], "")]

NullHabit == Habit("", "", Undef, Undef, <<>>, NoCount)

\* parseFrontmatter: null unless the header block is there and parses
parseFrontmatter(content) ==
  IF content.fm = "ok" THEN [ok |-> TRUE, obj |-> content.header]
  ELSE [ok |-> FALSE, obj |-> EmptyHeader]

\* getHabitById on the vault as it is: null when the file is missing (readFile
\* throws) or has no parseable header
getHabitById(vaultDocs, id) ==
  IF ~vaultDocs[id].exists THEN NullHabit
  ELSE LET parsed == parseFrontmatter(vaultDocs[id])
       IN IF ~parsed.ok THEN NullHabit
          ELSE Habit(id,
                     IF parsed.obj.title # Undef THEN parsed.obj.title ELSE id,
                     parsed.obj.trigger, parsed.obj.schedule,
                     normalizeHistory(parsed.obj.history), parsed.obj.count)

Truthy(str) == str # Undef /\ str # ""

\* a writeHabit that adds the record's days to those the document holds
overlayFieldsMerging(fmObj, h) ==
  [fmObj EXCEPT
     !.title = h.title,
     !.trigger = IF Truthy(h.trigger) THEN h.trigger ELSE @,
     !.schedule = IF Truthy(h.schedule) THEN h.schedule ELSE @,
     !.history = DumpHistory(SortAsc(h.history \o normalizeHistory(@))),
     !.count = IF h.count # NoCount THEN h.count ELSE @,
     !.habit = FlagTrue]

\* writeHabit, "Update frontmatter fields"
overlayFields(fmObj, h) ==
  [fmObj EXCEPT
     !.title = h.title,
     !.trigger = IF Truthy(h.trigger) THEN h.trigger ELSE @,
     !.schedule = IF Truthy(h.schedule) THEN h.schedule ELSE @,
     !.history = DumpHistory(SortAsc(h.history)),
     !.count = IF h.count # NoCount THEN h.count ELSE @,
     !.habit = FlagTrue]

\* writeHabit, from the text read to the text handed to vault.modify
mergeContent(content, h) ==
  LET fmObj == IF content.fm = "ok" THEN content.header ELSE EmptyHeader
  IN Doc(TRUE, "ok", overlayFields(fmObj, h), content.body)

\* ---------------------------------------------------------------- service
\* An instant is a number of hours since the epoch; a calendar day is a
\* number of days since the epoch.
HoursPerDay == 24

\* new Date().toISOString().slice(0, 10): the date part of the instant's UTC
\* rendering
toISOStringDay(instant) == instant \div HoursPerDay

\* todayISO()
todayISO == toISOStringDay(clock)

CallState(pc, day, updated, content, pendingLines, err, warned) ==
  [pc |-> pc, day |-> day, updated |-> updated, content |-> content,
   pendingLines |-> pendingLines, err |-> err, warned |-> warned]

IdleCall == CallState("idle", 0, NullHabit, NoDoc, <<>>, "", FALSE)

LogPcs == {"logCreating", "logReading", "logModifying"}

LoggingOn == opts.autoLogDaily /\ opts.logToDailyNote

\* sidebarView metadataCache 'changed' handler: getHabit, kept when not null
GetHabit(p, id) ==
  /\ calls[p].pc = "idle"
  /\ LET got == getHabitById(docs, id)
     IN held' = [held EXCEPT ![p] = IF got = NullHabit THEN @ ELSE got]
  /\ UNCHANGED <<docs, daily, dailyFolder, settings, opts, calls>>

\* increment: updated = markDone(habit, today); updated.count = deriveCount(updated)
incremented(h, date) ==
  LET marked == markDone(h, date)
  IN [marked EXCEPT !.count = deriveCount(marked)]

\* increment up to its first suspension: markDone, the count assignment,
\* writeHabit's lookup and the issue of vault.read
IncrementBeginNoLookup(p, date) ==
  /\ calls[p].pc = "idle"
  /\ held[p] # NullHabit
  /\ daily[date].exists => Len(daily[date].lines) < MaxLines
  /\ LET updated == incremented(held[p], date)
         sameObject == date \in Range(held[p].history)
     IN /\ held' = [held EXCEPT ![p] = IF sameObject THEN updated ELSE @]
        /\ calls' = [calls EXCEPT ![p] =
                       CallState("reading", date, updated, NoDoc, <<>>, "", FALSE)]
  /\ UNCHANGED <<docs, daily, dailyFolder, settings, opts>>

IncrementBegin(p, date) ==
  /\ calls[p].pc = "idle"
  /\ held[p] # NullHabit
  /\ daily[date].exists => Len(daily[date].lines) < MaxLines
  /\ LET updated == incremented(held[p], date)
         sameObject == date \in Range(held[p].history)
     IN /\ held' = [held EXCEPT ![p] = IF sameObject THEN updated ELSE @]
        /\ calls' = [calls EXCEPT ![p] =
                       IF docs[updated.id].exists
                       THEN CallState("reading", date, updated, NoDoc, <<>>, "", FALSE)
                       ELSE CallState("rejected", date, updated, NoDoc, <<>>, "NotFound", FALSE)]
  /\ UNCHANGED <<docs, daily, dailyFolder, settings, opts>>

\* writeHabit: vault.read delivers the text; the merge is computed and
\* vault.modify is issued
WriteHabitRead(p) ==
  /\ calls[p].pc = "reading"
  /\ LET id == calls[p].updated.id
     IN calls' = [calls EXCEPT ![p] =
                    IF docs[id].exists
                    THEN [@ EXCEPT !.pc = "modifying", !.content = docs[id]]
                    ELSE [@ EXCEPT !.pc = "rejected", !.err = "ReadFailed"]]
  /\ UNCHANGED <<docs, daily, dailyFolder, settings, opts, held>>

\* writeHabit: vault.modify lands; increment goes on to the optional log:
\* findOrCreateDailyNotePath's lookup, then vault.create or appendLineToFile
WriteHabitModify(p) ==
  /\ calls[p].pc = "modifying"
  /\ LET id == calls[p].updated.id
         day == calls[p].day
     IN IF docs[id].exists
        THEN /\ docs' = [docs EXCEPT ![id] = mergeContent(calls[p].content, calls[p].updated)]
             /\ calls' = [calls EXCEPT ![p].pc =
                            IF ~LoggingOn THEN "resolved"
                            ELSE IF ~daily[day].exists THEN "logCreating"
                            ELSE "logReading"]
        ELSE /\ calls' = [calls EXCEPT ![p] = [@ EXCEPT !.pc = "rejected", !.err = "ModifyFailed"]]
             /\ UNCHANGED docs
  /\ UNCHANGED <<daily, dailyFolder, settings, opts, held>>

\* findOrCreateDailyNotePath: vault.create lands or throws (the note is there
\* already, or the folder Daily is not); a throw is caught by increment
LogCreateNoCatch(p) ==
  /\ calls[p].pc = "logCreating"
  /\ LET day == calls[p].day
     IN IF daily[day].exists \/ ~dailyFolder
        THEN /\ calls' = [calls EXCEPT ![p] = [@ EXCEPT !.pc = "rejected", !.err = "CreateFailed"]]
             /\ UNCHANGED daily
        ELSE /\ daily' = [daily EXCEPT ![day] = DailyDoc(TRUE, <<>>)]
             /\ calls' = [calls EXCEPT ![p].pc = "logReading"]
  /\ UNCHANGED <<docs, dailyFolder, settings, opts, held>>

LogCreate(p) ==
  /\ calls[p].pc = "logCreating"
  /\ LET day == calls[p].day
     IN IF daily[day].exists \/ ~dailyFolder
        THEN /\ calls' = [calls EXCEPT ![p] = [@ EXCEPT !.pc = "resolved", !.warned = TRUE]]
             /\ UNCHANGED daily
        ELSE /\ daily' = [daily EXCEPT ![day] = DailyDoc(TRUE, <<>>)]
             /\ calls' = [calls EXCEPT ![p].pc = "logReading"]
  /\ UNCHANGED <<docs, dailyFolder, settings, opts, held>>

\* appendLineToFile: vault.read delivers the note, vault.modify is issued
LogRead(p) ==
  /\ calls[p].pc = "logReading"
  /\ LET day == calls[p].day
     IN calls' = [calls EXCEPT ![p] =
                    IF daily[day].exists
                    THEN [@ EXCEPT !.pc = "logModifying",
                                   !.pendingLines = Append(daily[day].lines, calls[p].updated.title)]
                    ELSE [@ EXCEPT !.pc = "resolved", !.warned = TRUE]]
  /\ UNCHANGED <<docs, daily, dailyFolder, settings, opts, held>>

\* appendLineToFile: vault.modify lands or throws; increment returns updated
LogModify(p) ==
  /\ calls[p].pc = "logModifying"
  /\ LET day == calls[p].day
     IN IF daily[day].exists
        THEN /\ daily' = [daily EXCEPT ![day].lines = calls[p].pendingLines]
             /\ calls' = [calls EXCEPT ![p].pc = "resolved"]
        ELSE /\ calls' = [calls EXCEPT ![p] = [@ EXCEPT !.pc = "resolved", !.warned = TRUE]]
             /\ UNCHANGED daily
  /\ UNCHANGED <<docs, dailyFolder, settings, opts, held>>

\* the view's continuation after await increment: the sidebar stores the
\* returned record in this.habits, a failure is only reported
Return(p) ==
  /\ calls[p].pc \in {"resolved", "rejected"}
  /\ held' = [held EXCEPT ![p] =
                IF p = "sidebar" /\ calls[p].pc = "resolved" THEN calls[p].updated ELSE @]
  /\ calls' = [calls EXCEPT ![p] = IdleCall]
  /\ UNCHANGED <<docs, daily, dailyFolder, settings, opts>>

\* createHabitFile: the text handed to vault.create; the body is the fixed
\* template
TemplateBody == "progress"

newHabitDocument(h) ==
  Doc(TRUE, "ok",
      Header(h.title,
             IF Truthy(h.trigger) THEN h.trigger ELSE "",
             IF Truthy(h.schedule) THEN h.schedule ELSE "",
             DumpHistory(h.history),
             IF h.count = NoCount THEN 0 ELSE h.count,
             FlagTrue, Undef, Undef),
      TemplateBody)

\* createHabit up to its suspension in createHabitFile; the folder of the
\* file is there or createFolder makes it
CreateHabitBegin(p, filename, title, trigger, schedule) ==
  /\ calls[p].pc = "idle"
  /\ calls' = [calls EXCEPT ![p] =
                 CallState("creating", 0, Habit(filename, title, trigger, schedule, <<>>, 0),
                           NoDoc, <<>>, "", FALSE)]
  /\ UNCHANGED <<docs, daily, dailyFolder, settings, opts, held>>

\* createHabitFile: vault.create lands, or throws because the file exists
CreateHabitFile(p) ==
  /\ calls[p].pc = "creating"
  /\ LET h == calls[p].updated
     IN IF docs[h.id].exists
        THEN /\ calls' = [calls EXCEPT ![p] = [@ EXCEPT !.pc = "rejected", !.err = "CreateFailed"]]
             /\ UNCHANGED docs
        ELSE /\ docs' = [docs EXCEPT ![h.id] = newHabitDocument(h)]
             /\ calls' = [calls EXCEPT ![p].pc = "resolved"]
  /\ UNCHANGED <<daily, dailyFolder, settings, opts, held>>

\* ------------------------------------------------------------ environment
\* documents as the user or another tool leaves them in the vault
ExternalDocs ==
  { Doc(TRUE, "ok", Header("Read", Undef, Undef, <<>>, NoCount, FlagTrue, Undef, "x"), "notes"),
    Doc(TRUE, "ok", Header("Read", "after coffee", "daily",
                           <<RawItem("date", 1, "00:00Z"), RawItem("str", 1, "T08:00")>>,
                           7, FlagStrTrue, FlagTrue, Undef), "notes"),
    Doc(TRUE, "ok", Header(Undef, Undef, Undef, <<RawItem("str", 2, "")>>, NoCount,
                           FlagFalse, FlagTrue, "x"), "log"),
    Doc(TRUE, "bad", EmptyHeader, "notes"),
    Doc(TRUE, "none", EmptyHeader, "notes") }

ExternalWrite(id, doc) ==
  /\ docs[id] # doc
  /\ docs' = [docs EXCEPT ![id] = doc]
  /\ UNCHANGED <<daily, dailyFolder, settings, opts, held, calls>>

ExternalDelete(id) ==
  /\ docs[id].exists
  /\ docs' = [docs EXCEPT ![id] = NoDoc]
  /\ UNCHANGED <<daily, dailyFolder, settings, opts, held, calls>>

ExternalDeleteDaily(day) ==
  /\ daily[day].exists
  /\ daily' = [daily EXCEPT ![day] = NoDaily]
  /\ UNCHANGED <<docs, dailyFolder, settings, opts, held, calls>>

\* KaizenSettingsTab, 'Habit Field Name' onChange
ChangeHabitField(name) ==
  /\ settings.habitField # name
  /\ settings' = [settings EXCEPT !.habitField = name]
  /\ UNCHANGED <<docs, daily, dailyFolder, opts, held, calls>>

\* KaizenSettingsTab, 'Auto-log to Daily Note' onChange
ToggleAutoLog(value) ==
  /\ settings.autoLogToDailyNote # value
  /\ settings' = [settings EXCEPT !.autoLogToDailyNote = value]
  /\ UNCHANGED <<docs, daily, dailyFolder, opts, held, calls>>

FlagFieldNames == {"habit", "isHabit"}

\* KaizenPlugin.onload: createHabitService(repo, {autoLogDaily, logToDailyNote})
serviceOptions(s) ==
  [autoLogDaily |-> s.autoLogToDailyNote, logToDailyNote |-> s.autoLogToDailyNote]

InitStore ==
  /\ docs \in {[id \in VaultPaths |-> IF id \in HabitIds THEN d[id] ELSE NoDoc] :
                 d \in [HabitIds -> ExternalDocs]}
  /\ daily = [d \in StoreDays |-> NoDaily]
  /\ dailyFolder \in BOOLEAN
  /\ settings \in [habitField : FlagFieldNames, autoLogToDailyNote : BOOLEAN]
  /\ opts = serviceOptions(settings)
  /\ held = [p \in Procs |-> NullHabit]
  /\ calls = [p \in Procs |-> IdleCall]
  /\ clock \in {HoursPerDay * d : d \in StoreDays}
  /\ zone = 0

StoreCallers == {"sidebar"}

NextStore ==
  \/ \E p \in StoreCallers, id \in HabitIds : GetHabit(p, id) /\ UNCHANGED <<engineVars, normVars, scanVars, watchVars, clockVars>>
  \/ \E p \in StoreCallers : IncrementBegin(p, todayISO) /\ UNCHANGED <<engineVars, normVars, scanVars, watchVars, clockVars>>
  \/ \E p \in StoreCallers : WriteHabitRead(p) /\ UNCHANGED <<engineVars, normVars, scanVars, watchVars, clockVars>>
  \/ \E p \in StoreCallers : WriteHabitModify(p) /\ UNCHANGED <<engineVars, normVars, scanVars, watchVars, clockVars>>
  \/ \E p \in StoreCallers : LogCreate(p) /\ UNCHANGED <<engineVars, normVars, scanVars, watchVars, clockVars>>
  \/ \E p \in StoreCallers : LogRead(p) /\ UNCHANGED <<engineVars, normVars, scanVars, watchVars, clockVars>>
  \/ \E p \in StoreCallers : LogModify(p) /\ UNCHANGED <<engineVars, normVars, scanVars, watchVars, clockVars>>
  \/ \E p \in StoreCallers : Return(p) /\ UNCHANGED <<engineVars, normVars, scanVars, watchVars, clockVars>>
  \/ \E id \in HabitIds, doc \in ExternalDocs : ExternalWrite(id, doc) /\ UNCHANGED <<engineVars, normVars, scanVars, watchVars, clockVars>>
  \/ \E id \in HabitIds : ExternalDelete(id) /\ UNCHANGED <<engineVars, normVars, scanVars, watchVars, clockVars>>
  \/ \E day \in StoreDays : ExternalDeleteDaily(day) /\ UNCHANGED <<engineVars, normVars, scanVars, watchVars, clockVars>>
  \/ \E name \in FlagFieldNames : ChangeHabitField(name) /\ UNCHANGED <<engineVars, normVars, scanVars, watchVars, clockVars>>
  \/ \E value \in BOOLEAN : ToggleAutoLog(value) /\ UNCHANGED <<engineVars, normVars, scanVars, watchVars, clockVars>>

\* --------------------------------------------------------------- creation
CreateCallers == {"command"}
GivenTexts(values) == values \cup {""}

InitCreate ==
  /\ docs \in [VaultPaths -> {NoDoc, CHOOSE d \in ExternalDocs : d.fm = "none"}]
  /\ daily = [d \in StoreDays |-> NoDaily]
  /\ dailyFolder = FALSE
  /\ settings \in [habitField : FlagFieldNames, autoLogToDailyNote : {FALSE}]
  /\ opts = serviceOptions(settings)
  /\ held = [p \in Procs |-> NullHabit]
  /\ calls = [p \in Procs |-> IdleCall]

restOfCreate == <<engineVars, normVars, scanVars, watchVars, clockVars>>

NextCreate ==
  \/ \E p \in CreateCallers, filename \in VaultPaths, title \in Titles,
        trigger \in GivenTexts(Triggers), schedule \in GivenTexts(Schedules) :
       CreateHabitBegin(p, filename, title, trigger, schedule) /\ UNCHANGED restOfCreate
  \/ \E p \in CreateCallers : CreateHabitFile(p) /\ UNCHANGED restOfCreate
  \/ \E p \in CreateCallers : Return(p) /\ UNCHANGED restOfCreate
  \/ \E p \in CreateCallers, id \in VaultPaths : GetHabit(p, id) /\ UNCHANGED restOfCreate
  \/ \E id \in VaultPaths : ExternalDelete(id) /\ UNCHANGED restOfCreate

\* ------------------------------------------------------------------- race
\* Two views hold the record they read from the same document and each
\* completes it; increment's date parameter is drawn from StoreDays.
RaceCallers == {"sidebar", "fullPage"}

InitRace ==
  /\ docs \in {[id \in VaultPaths |-> IF id \in HabitIds THEN doc ELSE NoDoc] :
                 doc \in {d \in ExternalDocs : d.fm = "ok"}}
  /\ daily = [d \in StoreDays |-> NoDaily]
  /\ dailyFolder = FALSE
  /\ settings \in [habitField : FlagFieldNames, autoLogToDailyNote : {FALSE}]
  /\ opts = serviceOptions(settings)
  /\ held = [p \in Procs |-> IF p \in RaceCallers THEN getHabitById(docs, HabitPath)
                             ELSE NullHabit]
  /\ calls = [p \in Procs |-> IdleCall]

restOfRace == <<engineVars, normVars, scanVars, watchVars, clockVars>>

NextRace ==
  \/ \E p \in RaceCallers, date \in StoreDays : IncrementBegin(p, date) /\ UNCHANGED restOfRace
  \/ \E p \in RaceCallers : WriteHabitRead(p) /\ UNCHANGED restOfRace
  \/ \E p \in RaceCallers : WriteHabitModify(p) /\ UNCHANGED restOfRace
  \/ \E p \in RaceCallers : Return(p) /\ UNCHANGED restOfRace

\* --------------------------------------------------------------- sequence
\* One document made by createHabit and then completed by one view, call
\* after call, with the record the view read or got back; nothing else
\* touches the vault.
SequenceCallers == {"sidebar"}

InitSequence ==
  /\ docs = [id \in VaultPaths |-> NoDoc]
  /\ daily = [d \in StoreDays |-> NoDaily]
  /\ dailyFolder = FALSE
  /\ settings \in [habitField : FlagFieldNames, autoLogToDailyNote : {FALSE}]
  /\ opts = serviceOptions(settings)
  /\ held = [p \in Procs |-> NullHabit]
  /\ calls = [p \in Procs |-> IdleCall]

restOfSequence == <<engineVars, normVars, scanVars, watchVars, clockVars>>

NextSequence ==
  \/ \E p \in CreateCallers, filename \in HabitIds, title \in Titles,
        trigger \in GivenTexts(Triggers), schedule \in GivenTexts(Schedules) :
       CreateHabitBegin(p, filename, title, trigger, schedule) /\ UNCHANGED restOfSequence
  \/ \E p \in CreateCallers : CreateHabitFile(p) /\ UNCHANGED restOfSequence
  \/ \E p \in SequenceCallers, id \in HabitIds : GetHabit(p, id) /\ UNCHANGED restOfSequence
  \/ \E p \in SequenceCallers, date \in StoreDays : IncrementBegin(p, date) /\ UNCHANGED restOfSequence
  \/ \E p \in SequenceCallers : WriteHabitRead(p) /\ UNCHANGED restOfSequence
  \/ \E p \in SequenceCallers : WriteHabitModify(p) /\ UNCHANGED restOfSequence
  \/ \E p \in CreateCallers \cup SequenceCallers : Return(p) /\ UNCHANGED restOfSequence

\* -------------------------------------------------------------- discovery
\* TFile.basename
basename(id) == IF id = HabitPath THEN "Read" ELSE "Run"

\* app.vault.getMarkdownFiles()
getMarkdownFiles(vaultDocs) == SelectSeq(FileOrder, LAMBDA id : vaultDocs[id].exists)

IsTrueFlag(v) == v = FlagTrue \/ v = FlagStrTrue

\* findAllHabits: fm && (fm[tagOrField] === true || fm[tagOrField] === 'true'),
\* fm being the frontmatter of the host's cache entry for the file
flaggedInCache(id, tagOrField) ==
  cache[id].exists /\ cache[id].fm = "ok" /\ IsTrueFlag(cache[id].header[tagOrField])

\* findAllHabits, the for loop from the files not yet visited up to the next
\* vault.read: the files from the first flagged one on
RECURSIVE skipToFlagged(_, _)
skipToFlagged(files, tagOrField) ==
  IF files = <<>> THEN <<>>
  ELSE IF flaggedInCache(Head(files), tagOrField) THEN files
  ELSE skipToFlagged(Tail(files), tagOrField)

\* findAllHabits: the record pushed for the text read, parseFrontmatter(raw) || {}
habitOfText(id, content) ==
  LET parsed == parseFrontmatter(content).obj
  IN Habit(id, IF parsed.title # Undef THEN parsed.title ELSE basename(id),
           parsed.trigger, parsed.schedule,
           normalizeHistory(parsed.history), parsed.count)

\* findAllHabits(tagOrField = 'habit'); listHabits passes no argument
DefaultField == "habit"

ScanState(pc, files, out) == [pc |-> pc, files |-> files, out |-> out]

IdleScan == ScanState("idle", <<>>, <<>>)

\* listHabits up to its first suspension
ListHabitsBegin ==
  /\ scan.pc = "idle"
  /\ LET files == skipToFlagged(getMarkdownFiles(docs), DefaultField)
     IN scan' = ScanState(IF files = <<>> THEN "done" ELSE "reading", files, <<>>)
  /\ UNCHANGED cache

\* findAllHabits: vault.read of the current file delivers its text and the
\* record is pushed, or throws and the catch logs; the loop goes on to the
\* next vault.read
ScanRead ==
  /\ scan.pc = "reading"
  /\ LET f == Head(scan.files)
         rest == skipToFlagged(Tail(scan.files), DefaultField)
         out == IF docs[f].exists THEN Append(scan.out, habitOfText(f, docs[f]))
                ELSE scan.out
     IN scan' = ScanState(IF rest = <<>> THEN "done" ELSE "reading", rest, out)
  /\ UNCHANGED cache

\* the view's continuation after await listHabits
ListHabitsReturn ==
  /\ scan.pc = "done"
  /\ scan' = IdleScan
  /\ UNCHANGED cache

\* the host indexes a file again after it changed
Reindex(id) ==
  /\ cache[id] # docs[id]
  /\ cache' = [cache EXCEPT ![id] = docs[id]]
  /\ UNCHANGED scan

ScanDocs == ExternalDocs \cup {NoDoc}

InitScan ==
  /\ docs \in [VaultPaths -> ScanDocs]
  /\ cache = docs
  /\ scan = IdleScan
  /\ settings \in [habitField : FlagFieldNames, autoLogToDailyNote : {FALSE}]
  /\ opts = serviceOptions(settings)
  /\ daily = [d \in StoreDays |-> NoDaily]
  /\ dailyFolder = FALSE
  /\ held = [p \in Procs |-> NullHabit]
  /\ calls = [p \in Procs |-> IdleCall]

restOfScan == <<engineVars, normVars, watchVars, clockVars>>

NextScan ==
  \/ ListHabitsBegin /\ UNCHANGED <<storeVars, restOfScan>>
  \/ ScanRead /\ UNCHANGED <<storeVars, restOfScan>>
  \/ ListHabitsReturn /\ UNCHANGED <<storeVars, restOfScan>>
  \/ \E id \in VaultPaths : Reindex(id) /\ UNCHANGED <<storeVars, restOfScan>>
  \/ \E id \in VaultPaths, doc \in ExternalDocs : ExternalWrite(id, doc) /\ UNCHANGED <<scanVars, restOfScan>>
  \/ \E id \in VaultPaths : ExternalDelete(id) /\ UNCHANGED <<scanVars, restOfScan>>

\* ------------------------------------------------------ day-rollover watch
NoTimer == 0
NoCallback == "<none>"

\* the sidebar's refresh closure, and a callback that throws
CallbackIds == {"refresh", "faulty"}

throws(callback) == callback = "faulty"

SampleHours == {0, 23}
Instants == {HoursPerDay * d + h : d \in 1..MaxWatchDay, h \in SampleHours}
ZoneOffsets == {-5, 0, 9}

Invocation(callback, oldDate, newDate, by) ==
  [callback |-> callback, oldDate |-> oldDate, newDate |-> newDate, by |-> by]

\* window.setInterval: a handle no live timer has
setInterval == CHOOSE t \in 1..(MaxTimers + 1) : t \notin timers

\* Array.prototype.indexOf, 0 when absent
indexOf(s, x) ==
  IF x \in Range(s) THEN CHOOSE i \in 1..Len(s) : s[i] = x /\ \A j \in 1..(i - 1) : s[j] # x
  ELSE 0

\* callbacks with index i spliced out
splice(s, i) == [j \in 1..(Len(s) - 1) |-> IF j < i THEN s[j] ELSE s[j + 1]]

StartAlways(callback) ==
  /\ callback # NoCallback => Len(callbacks) < MaxCallbacks
  /\ Cardinality(timers) < MaxTimers
  /\ callbacks' = IF callback # NoCallback THEN Append(callbacks, callback) ELSE callbacks
  /\ checkInterval' = setInterval
  /\ timers' = timers \cup {setInterval}
  /\ UNCHANGED <<lastCheckedDate, invoked>>

\* DayChangeDetector.start(callback?)
Start(callback) ==
  /\ callback # NoCallback => Len(callbacks) < MaxCallbacks
  /\ Cardinality(timers) < MaxTimers
  /\ callbacks' = IF callback # NoCallback THEN Append(callbacks, callback) ELSE callbacks
  /\ IF checkInterval = NoTimer
     THEN /\ checkInterval' = setInterval
          /\ timers' = timers \cup {setInterval}
     ELSE UNCHANGED <<checkInterval, timers>>
  /\ UNCHANGED <<lastCheckedDate, invoked>>

StopNoClear ==
  /\ checkInterval' = NoTimer
  /\ UNCHANGED <<timers, lastCheckedDate, callbacks, invoked>>

\* DayChangeDetector.stop()
Stop ==
  /\ IF checkInterval # NoTimer
     THEN /\ timers' = timers \ {checkInterval}
          /\ checkInterval' = NoTimer
     ELSE UNCHANGED <<checkInterval, timers>>
  /\ UNCHANGED <<lastCheckedDate, callbacks, invoked>>

\* DayChangeDetector.addCallback
AddCallback(callback) ==
  /\ Len(callbacks) < MaxCallbacks
  /\ callbacks' = Append(callbacks, callback)
  /\ UNCHANGED <<lastCheckedDate, checkInterval, timers, invoked>>

\* DayChangeDetector.removeCallback
RemoveCallback(callback) ==
  /\ LET index == indexOf(callbacks, callback)
     IN callbacks' = IF index > 0 THEN splice(callbacks, index) ELSE callbacks
  /\ UNCHANGED <<lastCheckedDate, checkInterval, timers, invoked>>

\* the invocations of a forEach that the first throwing callback ends
RECURSIVE untilThrow(_)
untilThrow(invocations) ==
  IF invocations = <<>> THEN <<>>
  ELSE IF throws(Head(invocations).callback) THEN <<Head(invocations)>>
  ELSE <<Head(invocations)>> \o untilThrow(Tail(invocations))

checkForDayChangeNoCatch(by) ==
  /\ LET currentDate == todayISO
         all == [i \in 1..Len(callbacks) |->
                   Invocation(callbacks[i], lastCheckedDate, currentDate, by)]
     IN IF currentDate # lastCheckedDate
        THEN /\ invoked' = untilThrow(all)
             /\ lastCheckedDate' = IF \E i \in 1..Len(all) : throws(all[i].callback)
                                   THEN lastCheckedDate ELSE currentDate
        ELSE /\ invoked' = <<>>
             /\ UNCHANGED lastCheckedDate
  /\ UNCHANGED <<checkInterval, callbacks, timers>>

\* a check that reports the rollover and keeps the stored day
checkForDayChangeNoStore(by) ==
  /\ LET currentDate == todayISO
     IN IF currentDate # lastCheckedDate
        THEN invoked' = [i \in 1..Len(callbacks) |->
                           Invocation(callbacks[i], lastCheckedDate, currentDate, by)]
        ELSE invoked' = <<>>
  /\ UNCHANGED <<lastCheckedDate, checkInterval, callbacks, timers>>

\* DayChangeDetector.checkForDayChange, run by the interval (by = "timer")
\* or by triggerCheck (by = "manual")
checkForDayChange(by) ==
  /\ LET currentDate == todayISO
     IN IF currentDate # lastCheckedDate
        THEN /\ invoked' = [i \in 1..Len(callbacks) |->
                              Invocation(callbacks[i], lastCheckedDate, currentDate, by)]
             /\ lastCheckedDate' = currentDate
        ELSE /\ invoked' = <<>>
             /\ UNCHANGED lastCheckedDate
  /\ UNCHANGED <<checkInterval, callbacks, timers>>

\* an interval whose handler never runs the check
TimerTickIdle(t) ==
  /\ t \in timers
  /\ UNCHANGED <<lastCheckedDate, checkInterval, callbacks, timers, invoked>>

\* the host fires a live interval timer
TimerTick(t) ==
  /\ t \in timers
  /\ checkForDayChange("timer")

\* DayChangeDetector.triggerCheck
TriggerCheck == checkForDayChange("manual")

\* time passes
AdvanceClock(instant) ==
  /\ instant > clock
  /\ clock' = instant
  /\ UNCHANGED zone

\* new DayChangeDetector()
InitWatch ==
  /\ clock \in Instants
  /\ zone \in ZoneOffsets
  /\ lastCheckedDate = todayISO
  /\ checkInterval = NoTimer
  /\ callbacks = <<>>
  /\ timers = {}
  /\ invoked = <<>>

restOfWatch == <<engineVars, normVars, storeVars, scanVars>>

NextWatch ==
  \/ \E callback \in CallbackIds \cup {NoCallback} :
       Start(callback) /\ UNCHANGED <<clockVars, restOfWatch>>
  \/ Stop /\ UNCHANGED <<clockVars, restOfWatch>>
  \/ \E callback \in CallbackIds : AddCallback(callback) /\ UNCHANGED <<clockVars, restOfWatch>>
  \/ \E callback \in CallbackIds : RemoveCallback(callback) /\ UNCHANGED <<clockVars, restOfWatch>>
  \/ \E t \in timers : TimerTick(t) /\ UNCHANGED <<clockVars, restOfWatch>>
  \/ TriggerCheck /\ UNCHANGED <<clockVars, restOfWatch>>
  \/ \E instant \in Instants : AdvanceClock(instant) /\ UNCHANGED <<watchVars, restOfWatch>>

\* ---------------------------------------------------------------- restart
\* A view opens and closes: every open calls start with the view's refresh
\* closure, every close calls stop.
ViewCallback == "refresh"

\* onOpen: registerDayChangeDetector; the host opens a view that is closed
registerDayChangeDetector ==
  /\ checkInterval = NoTimer
  /\ Start(ViewCallback)

\* onClose: unregisterDayChangeDetector; the host closes a view that is open
unregisterDayChangeDetector ==
  /\ checkInterval # NoTimer
  /\ Stop

NextRestart ==
  \/ registerDayChangeDetector /\ UNCHANGED <<clockVars, restOfWatch>>
  \/ unregisterDayChangeDetector /\ UNCHANGED <<clockVars, restOfWatch>>
  \/ \E t \in timers : TimerTick(t) /\ UNCHANGED <<clockVars, restOfWatch>>
  \/ \E instant \in Instants : AdvanceClock(instant) /\ UNCHANGED <<watchVars, restOfWatch>>

\* ------------------------------------------------------- reference notions
HistorySet == Range(habit.history)

\* length of the run of consecutive calendar days of S that ends at day d
RunEndingAt(S, d) ==
  Cardinality({k \in 1..(MaxDay + 1) : \A j \in 0..(k - 1) : (d - j) \in S})

SetMax(S) == CHOOSE x \in S : \A y \in S : y <= x

\* length of the longest run of consecutive calendar days of S
MaxRun(S) == IF S = {} THEN 0 ELSE SetMax({RunEndingAt(S, d) : d \in S})

HasDuplicates(s) == ~NoDuplicates(s)

\* the calendar day a wall clock shows at the instant in a zone
localDay(instant, offset) == (instant + offset) \div HoursPerDay

\* ---------------------------------------------------------- engine claims

\* C1: when the reference day is not in the history but the day before it
\* is, currentStreak is the length of the run of consecutive days that ends
\* at the day before the reference day.
C1_StreakRunEndingYesterday ==
  (last.op = "currentStreak" /\ last.day \notin HistorySet
     /\ (last.day - 1) \in HistorySet)
    => last.out = RunEndingAt(HistorySet, last.day - 1)

\* C2: markDone is idempotent: a markDone for day d applied to the record a
\* markDone for the same day d returned gives back a record with the same
\* id, title, trigger, schedule, history and count.
C2_MarkDoneIdempotent ==
  [][(last.op = "markDone" /\ last'.op = "markDone" /\ last'.day = last.day)
       => habit' = habit]_vars

\* C2 witness: markDone ran on a record whose history already held the day
\* and whose count markDone had set.
C2_Witness ==
  /\ last.op = "markDone"
  /\ last.day \in HistorySet
  /\ Len(habit.history) >= 2
  /\ habit.count = Len(habit.history)

\* C3: streak bound: for a reference day on or after the latest history
\* entry, longestStreak is at least currentStreak, duplicates included.
C3_LongestAtLeastCurrent ==
  (last.op = "currentStreak" /\ \A d \in HistorySet : d <= last.day)
    => longestStreak(habit) >= last.out

C5_ZeroWhenAbsent ==
  /\ (last.op = "currentStreak" /\ last.day \notin HistorySet
        /\ (last.day - 1) \notin HistorySet) => last.out = 0
  /\ (habit.history = <<>> /\ last.op \in {"currentStreak", "completionRate", "isDoneToday"})
        => last.out = 0
  /\ (habit.history = <<>> /\ last.op = "longestStreak")
        => last.out = 0
  /\ (habit.history = <<>> /\ last.op = "deriveCount" /\ habit.count = NoCount)
        => last.out = 0

\* C5 witness: currentStreak returned 0 on a non-empty history whose latest
\* entry is two or more days before the reference day.
C5_Witness ==
  /\ last.op = "currentStreak"
  /\ habit.history # <<>>
  /\ \A d \in HistorySet : d < last.day - 1
  /\ last.out = 0

\* C6: longestStreak is the maximum length of a run of consecutive calendar
\* days over the set of days of the history, duplicates or not.
C6_LongestIsMaxRun ==
  last.op = "longestStreak" => last.out = MaxRun(HistorySet)

\* ------------------------------------------------------------ rate claims
Abs(x) == IF x < 0 THEN -x ELSE x

\* the days of the window of the last completionRate call that are in the
\* history, each counted once
WindowCount ==
  Cardinality({d \in (last.day - last.n + 1)..last.day : d \in HistorySet})

\* num / den rounded to the nearest integer, halves up
RoundHalfUp(num, den) == (2 * num + den) \div (2 * den)

C7_NormalizedSortedNoDuplicates ==
  IsSortedAsc(nout) /\ NoDuplicates(nout)

\* ----------------------------------------------------------- store claims
OverlaidKeys == {"title", "trigger", "schedule", "history", "count"}

\* the step in which the vault.modify of p's writeHabit lands
WriteLands(p) ==
  calls[p].pc = "modifying" /\ calls'[p].pc \notin {"modifying", "rejected"}

\* C8: writeHabit on an existing document whose header parses leaves the
\* body unchanged and leaves every header field other than title, trigger,
\* schedule, history, count and the (configured) flag field with its
\* previous value. Stated of a write that lands on the text it read.
C8_WriteHabitFrame ==
  [][\A p \in Procs :
       (WriteLands(p) /\ docs[calls[p].updated.id] = calls[p].content
          /\ calls[p].content.fm = "ok")
         => LET id == calls[p].updated.id
            IN /\ docs'[id].body = docs[id].body
               /\ \A k \in HeaderKeys \ (OverlaidKeys \cup {settings.habitField}) :
                    docs'[id].header[k] = docs[id].header[k]]_vars

\* C9: when the backing document does not exist at write time, increment
\* fails with NotFound, and neither that step nor any later step of the call
\* creates or modifies a document, the daily note included.
C9_NotFoundSurfaced ==
  [][\A p \in Procs :
       /\ (calls[p].pc = "idle" /\ calls'[p].pc # "idle"
             /\ ~docs[held[p].id].exists)
            => (calls'[p].pc = "rejected" /\ calls'[p].err = "NotFound"
                  /\ UNCHANGED vaultVars)
       /\ (calls[p].pc = "rejected" /\ calls'[p] # calls[p])
            => (calls'[p].pc = "idle" /\ UNCHANGED vaultVars)]_vars

\* C9 witness: an increment was rejected with NotFound while logging was
\* enabled and the folder of the daily notes existed.
C9_Witness ==
  \E p \in Procs :
    /\ calls[p].pc = "rejected"
    /\ calls[p].err = "NotFound"
    /\ LoggingOn
    /\ dailyFolder
    /\ \A d \in StoreDays : ~daily[d].exists

\* C10: a failure of the secondary day-log write never propagates and never
\* undoes the primary write: once the primary write has landed with the
\* completed day in the document's history, every further step of the call
\* leaves the habit documents alone and ends in a resolved call that returns
\* the updated record, which holds the completed day.
C10_LogFailureContained ==
  [][\A p \in Procs :
       /\ WriteLands(p)
            => /\ calls'[p].pc \in LogPcs \cup {"resolved"}
               /\ calls[p].day \in Range(normalizeHistory(docs'[calls[p].updated.id].header.history))
       /\ (calls[p].pc \in LogPcs /\ calls'[p] # calls[p])
            => /\ calls'[p].pc \in LogPcs \cup {"resolved"}
               /\ calls'[p].updated = calls[p].updated
               /\ calls[p].day \in Range(calls'[p].updated.history)
               /\ docs' = docs]_vars

\* C10 witness: an increment resolved after its day-log write had failed,
\* and the habit document holds the completed day.
C10_Witness ==
  \E p \in Procs :
    /\ calls[p].pc = "resolved"
    /\ calls[p].warned
    /\ docs[calls[p].updated.id].exists
    /\ calls[p].day \in Range(normalizeHistory(docs[calls[p].updated.id].header.history))

\* C14: round trip through the store: when the vault.modify of writeHabit(r)
\* has landed, getHabitById reads back a record with the title, trigger,
\* schedule, history and count of r, also when r has no trigger or schedule
\* and the document carried one.
C14_RoundTrip ==
  [][\A p \in Procs :
       WriteLands(p)
         => LET r == calls[p].updated
                back == getHabitById(docs', r.id)
            IN /\ back.title = r.title
               /\ back.trigger = r.trigger
               /\ back.schedule = r.schedule
               /\ back.history = r.history
               /\ back.count = r.count]_vars

\* the step in which the vault.create of p's createHabit lands
CreateLands(p) == calls[p].pc = "creating" /\ calls'[p].pc = "resolved"

\* C15: the document createHabit(path, title, trigger?, schedule?) creates
\* has a header with the title, the flag field true, an empty history and
\* count 0, and no trigger (schedule) key when the trigger (schedule) is
\* empty or not given.
C15_CreatedHeader ==
  [][\A p \in Procs :
       CreateLands(p)
         => LET r == calls[p].updated
                header == docs'[r.id].header
            IN /\ docs'[r.id].fm = "ok"
               /\ header.title = r.title
               /\ header[settings.habitField] = FlagTrue
               /\ header.history = <<>>
               /\ header.count = 0
               /\ header.trigger = (IF Truthy(r.trigger) THEN r.trigger ELSE Undef)
               /\ header.schedule = (IF Truthy(r.schedule) THEN r.schedule ELSE Undef)]_vars

\* C20: the day-log write follows the auto-log setting as it is when
\* increment runs: when the primary write has landed, increment goes on to
\* the daily note exactly when 'Auto-log to Daily Note' is enabled in the
\* settings.
C20_LogFollowsSetting ==
  [][\A p \in Procs :
       WriteLands(p) => (calls'[p].pc \in LogPcs <=> settings.autoLogToDailyNote)]_vars

\* C22: increment is idempotent per day on the habit document: once the
\* write of an increment has landed, a further increment for the same day,
\* made with the record the caller passed or with the record returned,
\* writes the document as it is (header and body).
C22_IncrementIdempotent ==
  [][\A p \in Procs :
       WriteLands(p)
         => LET id == calls[p].updated.id
            IN \A record \in {held[p], calls[p].updated} :
                 mergeContent(docs'[id], incremented(record, calls[p].day)) = docs'[id]]_vars

\* C22 witness: an increment resolved for a day the record it was called
\* with already held, on a document that holds that day and one more.
C22_Witness ==
  \E p \in Procs :
    /\ calls[p].pc = "resolved"
    /\ calls[p].day \in Range(held[p].history)
    /\ docs[held[p].id].exists
    /\ Len(docs[held[p].id].header.history) >= 2
    /\ calls[p].day \in Range(normalizeHistory(docs[held[p].id].header.history))

\* C24: the history of a habit document only grows under increment: every
\* day the document held just before the write of a successful increment
\* landed is in it afterwards, also when the record is a stale snapshot.
C24_HistoryOnlyGrows ==
  [][\A p \in Procs :
       WriteLands(p)
         => LET id == calls[p].updated.id
            IN Range(normalizeHistory(docs[id].header.history))
                 \subseteq Range(normalizeHistory(docs'[id].header.history))]_vars

\* C27: increment does not modify the record the caller passed: the record
\* the view holds is the same before and after the call begins, whether or
\* not the day is in its history.
C27_InputNotMutated ==
  [][\A p \in Procs :
       (calls[p].pc = "idle" /\ calls'[p].pc \in {"reading", "rejected"})
         => held'[p] = held[p]]_vars

\* C29: with daily logging enabled, the daily document of a day holds at
\* most one entry line per habit, however often increment is called for the
\* habit on that day.
C29_OneLinePerHabit ==
  \A d \in StoreDays : NoDuplicates(daily[d].lines)

\* C23: lost update. The history vault.modify writes is the record's own,
\* sorted, whatever history the text re-read inside writeHabit held; so of
\* two increment calls that start from the same record with different days
\* and interleave, the later write replaces the day the earlier one added.
C23_LastWriterWins ==
  [][\A p \in Procs :
       WriteLands(p) =>
         docs'[calls[p].updated.id].header.history =
           DumpHistory(SortAsc(calls[p].updated.history))]_vars

\* C23 witness: two calls for different days, each made with the same
\* record (neither record holds the other's day), have both resolved and
\* the document's history lacks one of the two days.
C23_Witness ==
  \E a, b \in RaceCallers :
    /\ a # b
    /\ calls[a].pc = "resolved" /\ calls[b].pc = "resolved"
    /\ calls[a].day # calls[b].day
    /\ Range(calls[a].updated.history) \ {calls[a].day}
         = Range(calls[b].updated.history) \ {calls[b].day}
    /\ calls[a].day \notin Range(calls[b].updated.history)
    /\ calls[b].day \notin Range(calls[a].updated.history)
    /\ docs[HabitPath].exists
    /\ ~({calls[a].day, calls[b].day}
           \subseteq Range(normalizeHistory(docs[HabitPath].header.history)))

\* C28: a document made by createHabit and changed only by successful
\* increment calls, each with the record last read or returned, has a
\* header history that is sorted ascending, has no duplicate day, and a
\* count equal to the number of history entries.
C28_StoreInvariant ==
  \A id \in HabitIds :
    docs[id].exists =>
      LET days == normalizeHistory(docs[id].header.history)
      IN /\ Len(days) = Len(docs[id].header.history)
         /\ IsSortedAsc(days)
         /\ NoDuplicates(days)
         /\ docs[id].header.count = Len(days)

\* C28 witness: the created document holds two days, the later one marked
\* first, and a call for a day already marked has resolved.
C28_Witness ==
  \E p \in SequenceCallers :
    /\ calls[p].pc = "resolved"
    /\ calls[p].day = 1
    /\ held[p].history = <<1, 2>>
    /\ docs[HabitPath].header.history = DumpHistory(<<1, 2>>)
    /\ docs[HabitPath].body = TemplateBody

\* ------------------------------------------------------- discovery claims
\* a step of the listHabits call
ScanStep == scan' # scan /\ scan'.pc # "idle"

\* the files the loop has still to look at when the step begins
ToVisit == IF scan.pc = "idle" THEN getMarkdownFiles(docs) ELSE Tail(scan.files)

\* the files the loop passes over in the step without reading them
PassedOver == {id \in Range(ToVisit) : id \notin Range(scan'.files)}

\* the step in which vault.read of the current file delivers or throws
ReadDelivers == scan.pc = "reading" /\ docs[Head(scan.files)].exists
ReadThrows == scan.pc = "reading" /\ ~docs[Head(scan.files)].exists

\* C11: the flag field is the configured one: with habitField = F, the scan
\* of listHabits reads and returns a document exactly when it is readable
\* and its parsed header (the host's) has F equal to true or "true".
C11_FlagFieldConfigured ==
  [][ScanStep =>
       /\ \A id \in PassedOver : ~flaggedInCache(id, settings.habitField)
       /\ scan'.pc = "reading" => flaggedInCache(Head(scan'.files), settings.habitField)
       /\ ReadDelivers => /\ Len(scan'.out) = Len(scan.out) + 1
                          /\ scan'.out[Len(scan'.out)].id = Head(scan.files)]_vars

\* C12: discovery isolates each document: a document whose flag field is
\* not true or "true" is never taken for reading; a document whose read
\* fails is skipped, the records collected so far are kept, and the scan
\* goes on with every other document whose flag field is true.
C12_ScanIsolatesDocuments ==
  [][ScanStep =>
       /\ scan'.pc = "reading" => flaggedInCache(Head(scan'.files), settings.habitField)
       /\ ReadThrows => scan'.out = scan.out /\ scan'.pc \in {"reading", "done"}
       /\ ReadDelivers => SubSeq(scan'.out, 1, Len(scan.out)) = scan.out
       /\ \A id \in Range(ToVisit) :
            flaggedInCache(id, settings.habitField) => id \in Range(scan'.files)]_vars

\* C13: a document whose header block fails to parse when the scan reads it
\* gets no record in the list, whatever the host's cached header shows.
C13_MalformedExcluded ==
  [][(ScanStep /\ ReadDelivers /\ docs[Head(scan.files)].fm = "bad")
       => scan'.out = scan.out]_vars

\* ----------------------------------------------------------- watch claims
Running == checkInterval # NoTimer

\* C16: start is idempotent with respect to the timer: whatever start, stop,
\* addCallback and removeCallback calls were made, at most one polling timer
\* is live (the one the watch holds), and a start while Running appends its
\* callback and leaves the timer alone.
C16_OneTimer ==
  /\ [](Cardinality(timers) <= 1 /\ (Running => timers = {checkInterval}))
  /\ [][(Running /\ Len(callbacks') > Len(callbacks))
          => /\ timers' = timers
             /\ checkInterval' = checkInterval
             /\ Len(callbacks') = Len(callbacks) + 1
             /\ SubSeq(callbacks', 1, Len(callbacks)) = callbacks]_vars

\* C16 witness: the watch is Running with two or more callbacks registered
\* and holds the only live timer.
C16_Witness ==
  /\ Running
  /\ Len(callbacks) >= 2
  /\ timers = {checkInterval}

\* C17: stop moves Running to Stopped and changes nothing else of the watch;
\* while the watch is Stopped no timer is live, and no callback is invoked
\* by a timer tick.
C17_StopStopsTicks ==
  /\ [](~Running => timers = {})
  /\ [][(Running /\ ~Running')
          => (timers' = {} /\ UNCHANGED <<lastCheckedDate, callbacks, invoked>>)]_vars
  /\ [][(~Running /\ invoked' # invoked)
          => \A i \in 1..Len(invoked') : invoked'[i].by = "manual"]_vars

\* C17 witness: the watch is Stopped after a timer tick had reported a
\* rollover, callbacks are registered and the day has changed again.
C17_Witness ==
  /\ ~Running
  /\ callbacks # <<>>
  /\ invoked # <<>>
  /\ invoked[1].by = "timer"
  /\ todayISO # lastCheckedDate

\* the step of a check that detected a rollover
RolloverDetected ==
  \/ invoked' # invoked /\ invoked' # <<>>
  \/ lastCheckedDate' # lastCheckedDate

\* C18: when a check detects a rollover, every registered callback is
\* invoked, in order, with the pair (stored day, current day), whether or
\* not an earlier callback threw, and the stored day becomes the current day.
C18_CallbackFailureIsolated ==
  [][RolloverDetected
       => /\ Len(invoked') = Len(callbacks)
          /\ \A i \in 1..Len(callbacks) :
               /\ invoked'[i].callback = callbacks[i]
               /\ invoked'[i].oldDate = lastCheckedDate
               /\ invoked'[i].newDate = todayISO
          /\ lastCheckedDate' = todayISO]_vars

\* C18 witness: a rollover was reported to a callback registered after one
\* that throws, and the stored day is the new day.
C18_Witness ==
  /\ \E i, j \in 1..Len(invoked) :
       i < j /\ throws(invoked[i].callback) /\ ~throws(invoked[j].callback)
  /\ lastCheckedDate = invoked[1].newDate
  /\ lastCheckedDate # invoked[1].oldDate

\* C25: each rollover is reported exactly once. A step that invokes
\* callbacks or moves the stored day starts with the current day different
\* from the stored day, invokes every registered callback once, in order,
\* with (stored day, current day), and leaves the stored day equal to the
\* current day, so that a following check on that day finds no difference;
\* a check made while the stored day is the current day invokes no callback
\* and leaves the stored day, the timer and the callbacks as they were.
C25_ReportedOnce ==
  /\ [][RolloverDetected
          => /\ todayISO # lastCheckedDate
             /\ invoked' = [i \in 1..Len(callbacks) |->
                              Invocation(callbacks[i], lastCheckedDate, todayISO,
                                         invoked'[i].by)]
             /\ lastCheckedDate' = todayISO
             /\ todayISO' = lastCheckedDate']_vars
  /\ [][(todayISO = lastCheckedDate /\ invoked' # invoked)
          => /\ invoked' = <<>>
             /\ UNCHANGED <<lastCheckedDate, checkInterval, callbacks, timers>>]_vars

\* C25 witness: a manual check reported a rollover to two registered
\* callbacks and the stored day is the current day.
C25_Witness ==
  /\ Len(invoked) >= 2
  /\ Len(invoked) = Len(callbacks)
  /\ \A i \in 1..Len(invoked) : invoked[i].by = "manual" /\ invoked[i].newDate = todayISO
  /\ lastCheckedDate = todayISO
  /\ lastCheckedDate # invoked[1].oldDate

\* the current day differs from the stored day
Pending == todayISO # lastCheckedDate

\* the last check reported the current day to every registered callback
Reported ==
  /\ lastCheckedDate = todayISO
  /\ Len(invoked) = Len(callbacks)
  /\ \A i \in 1..Len(invoked) :
       invoked[i].callback = callbacks[i] /\ invoked[i].newDate = todayISO

\* C26: liveness of rollover detection. With the interval firing as long as
\* it is live, a change of the current day seen while the watch is Running
\* leads to the watch being stopped or to every registered callback having
\* been invoked with the current day as newDay.
C26_RolloverEventuallyReported == (Running /\ Pending) ~> (~Running \/ Reported)

\* C26 witness: the watch is Running and its last timer tick reported a
\* rollover to the current day to every registered callback.
C26_Witness ==
  /\ Running
  /\ Reported
  /\ invoked # <<>>
  /\ \A i \in 1..Len(invoked) : invoked[i].by = "timer"
  /\ invoked[1].oldDate # invoked[1].newDate

\* C30: a detected rollover invokes the view's callback once, however many
\* times the view was opened and closed before.
C30_OncePerRollover ==
  \A cb \in CallbackIds :
    Cardinality({i \in 1..Len(invoked) : invoked[i].callback = cb}) <= 1

\* C19: todayISO is the local calendar day, at every instant and in every
\* time zone.
C19_TodayIsLocalDay == todayISO = localDay(clock, zone)

\* ----------------------------------------------------------- specifications
IdleHabit == Habit(HabitPath, "Read", Undef, Undef, <<>>, NoCount)

IdleEngine == habit = IdleHabit /\ last = Call("none", 0, 0, 0)

IdleStore ==
  /\ docs = [id \in VaultPaths |-> NoDoc]
  /\ daily = [d \in StoreDays |-> NoDaily]
  /\ dailyFolder = FALSE
  /\ settings = [habitField |-> "habit", autoLogToDailyNote |-> FALSE]
  /\ opts = serviceOptions(settings)
  /\ held = [p \in Procs |-> NullHabit]
  /\ calls = [p \in Procs |-> IdleCall]

IdleClock == clock = HoursPerDay /\ zone = 0

IdleDiscovery == cache = [id \in VaultPaths |-> NoDoc] /\ scan = IdleScan

IdleWatch ==
  /\ lastCheckedDate = todayISO
  /\ checkInterval = NoTimer
  /\ callbacks = <<>>
  /\ timers = {}
  /\ invoked = <<>>

EngineStart == InitEngine /\ InitNormalize /\ IdleStore /\ IdleClock /\ IdleDiscovery /\ IdleWatch

NormalizeStart == IdleEngine /\ InitNormalize /\ IdleStore /\ IdleClock /\ IdleDiscovery /\ IdleWatch

StoreStart == IdleEngine /\ InitNormalize /\ InitStore /\ IdleDiscovery /\ IdleWatch

ScanStart == IdleEngine /\ InitNormalize /\ InitScan /\ IdleClock /\ IdleWatch

CreateStart == IdleEngine /\ InitNormalize /\ InitCreate /\ IdleClock /\ IdleDiscovery /\ IdleWatch

RateStart == InitRate /\ InitNormalize /\ IdleStore /\ IdleClock /\ IdleDiscovery /\ IdleWatch

WatchStart == IdleEngine /\ InitNormalize /\ IdleStore /\ IdleDiscovery /\ InitWatch

SpecEngine == EngineStart /\ [][NextEngine]_vars

SpecNormalize == NormalizeStart /\ [][NextNormalize]_vars

SpecStore == StoreStart /\ [][NextStore]_vars

SpecScan == ScanStart /\ [][NextScan]_vars

SpecCreate == CreateStart /\ [][NextCreate]_vars

SpecWatch == WatchStart /\ [][NextWatch]_vars

SpecRate == RateStart /\ [][NextRate]_vars

RaceStart == IdleEngine /\ InitNormalize /\ InitRace /\ IdleClock /\ IdleDiscovery /\ IdleWatch

SequenceStart == IdleEngine /\ InitNormalize /\ InitSequence /\ IdleClock /\ IdleDiscovery /\ IdleWatch

SpecRace == RaceStart /\ [][NextRace]_vars

SpecSequence == SequenceStart /\ [][NextSequence]_vars

SpecRestart == WatchStart /\ [][NextRestart]_vars

\* the host fires the interval every CHECK_INTERVAL_MS while it is live
SpecWatchLive ==
  /\ WatchStart
  /\ [][NextWatch]_vars
  /\ WF_vars(\E t \in timers : TimerTick(t) /\ UNCHANGED <<clockVars, restOfWatch>>)

====
